---------------------------- MODULE Spec2Model ----------------------------
(***************************************************************************)
(* A model of the channel library of src/chan.hpp: the channel entity      *)
(* (queue, closed flag, mutex, two condition variables), the sender and    *)
(* receiver operations on it, close(), the select iterator, the threads of *)
(* timer and ticker, and the copy and assignment of channel handles.       *)
(*                                                                         *)
(* Every thread is a small state machine whose position is kept in a pc    *)
(* variable.  A step is one of the points at which the C++ code can be     *)
(* interleaved with another thread: the atomic load or store of `closed`,  *)
(* the acquisition of the mutex, the evaluation of a wait predicate, the   *)
(* entry into condition_variable::wait (which releases the mutex and       *)
(* blocks atomically), and the rest of a critical section up to the        *)
(* release of the mutex.                                                   *)
(***************************************************************************)
EXTENDS Integers, Sequences, FiniteSets, TLC

(***************************************************************************)
(* Bounds of the model.                                                    *)
(***************************************************************************)
NSenders == 3
NReceivers == 2
NClosers == 1
MaxSends == 4
MaxCap == 2
NChans == 2
NAssigners == 2
NHandles == 3
NCores == 2

\* std::numeric_limits<std::size_t>::max(), the default capacity: a number
\* no queue of the model can reach (TLC's integers are 32 bits wide).
SizeMax == 2147483647

Senders == 1..NSenders
Receivers == 1..NReceivers
Closers == 1..NClosers
Chans == 1..NChans
Assigners == 1..NAssigners
Handles == 1..NHandles
Cores == 1..NCores

VARIABLES
    nch,        \* number of channels constructed in this configuration
    conf,       \* the threads that make calls in it, and the send() calls made
    capacity,   \* entity::capacity, per channel
    closed,     \* entity::closed, per channel
    queue,      \* entity::queue, per channel
    mutex,      \* entity::mutex, per channel: the owner, or Free
    produce,    \* entity::produce: the senders blocked in wait()
    consume,    \* entity::consume: the receivers blocked in wait()
    spc, sch, sval,                \* sender threads: position, channel, value
    rpc, rch, rop,                 \* receiver threads: position, channel, call
    cpc, cch,                      \* closer threads: position, channel
    ret,                           \* the last call that returned, and its result
    nsends,                        \* send() calls made so far (bounded)
    sent, rcvd,                    \* history: enqueue and dequeue order
    closeMark,                     \* history: Len(sent) when closed was set
    closeReturned,                 \* history: some close() has returned
    sAfterClose,                   \* history: send() invoked after that
    sWaitOpen,                     \* history: channel open when the send blocked
    lastDeq,    \* history: at the last dequeue, was the queue full, who was blocked
                \* in send() and Len(sent); and who has enqueued since
    selpc,      \* position of the thread iterating a select
    nullable,   \* select::nullable
    stage,      \* select::iterator::stage, one optional per channel
    is_closed,  \* select::iterator::is_closed
    opened,     \* select::iterator::opened
    idx, not_visited, visited, received,   \* locals of operator++
    everDrained,   \* history: every channel was closed and empty at some point
    lateRound,     \* history: the round of the select began after that point
    yieldedAfter,  \* history: such a round has yielded its tuple to the caller
    tried,      \* history: the channels probed empty in this round of the select
    roundDeq,   \* history: <<channel, value>> of the dequeues of this round
    tpc, tkind, \* the background thread of timer() or ticker(): position, kind
    tAfterClose,   \* history: its send began after close() had set closed
    e,          \* basic_chan::e of each handle: the core it shares
    shared_ptr_mutex,   \* entity::shared_ptr_mutex of each core: owner, or Free
    apc, lhs, rhs,      \* threads assigning handles: position, operands
    lock_lhs, lock_rhs  \* the cores whose mutex their lock_guards refer to

chanVars == <<nch, conf, capacity, closed, queue, mutex, produce, consume>>
sendVars == <<spc, sch, sval>>
recvVars == <<rpc, rch, rop>>
closeVars == <<cpc, cch>>
histVars == <<sent, rcvd, closeMark, closeReturned, sAfterClose, sWaitOpen, lastDeq>>
selVars == <<selpc, nullable, stage, is_closed, opened, idx, not_visited, visited, received>>
selHist == <<everDrained, lateRound, yieldedAfter>>
selRound == <<tried, roundDeq>>
taskVars == <<tpc, tkind, tAfterClose>>
asgVars == <<e, shared_ptr_mutex, apc, lhs, rhs, lock_lhs, lock_rhs>>

vars == <<chanVars, sendVars, recvVars, closeVars, ret, nsends, histVars, selVars,
          selHist, selRound, taskVars, asgVars>>

Free == <<>>
SenderId(s) == <<"sender", s>>
ReceiverId(r) == <<"receiver", r>>
SelectId == <<"select", 0>>

\* std::optional<T>
None == <<>>
Some(v) == <<v>>

\* what a call gave its caller: send() returns ("ok") or throws
\* ("ChannelClosed"); receive(), try_receive() and the iterator give an
\* optional; operator>> gives true with the value assigned, or false
Returned(who, op, val) == [who |-> who, op |-> op, val |-> val]

(***************************************************************************)
(* Pure helpers: the expressions of the code the operations are made of.   *)
(***************************************************************************)
is_open_AlwaysOpen(ch) == TRUE

\* basic_chan::is_open
is_open(ch) == ~closed[ch]

HasSpace_OffByOne(ch) == Len(queue[ch]) <= capacity[ch]

\* the wait predicate of sender::send
HasSpace(ch) == Len(queue[ch]) < capacity[ch]

CanReceive_NoWait(ch) == TRUE

\* the wait predicate of receiver::receive and operator>>
CanReceive(ch) == queue[ch] # <<>> \/ ~is_open(ch)

Push_AtFront(q, v) == <<v>> \o q

\* std::queue::push, front and pop
Push(q, v) == Append(q, v)
Front(q) == Head(q)
Pop(q) == Tail(q)

\* every channel of the configuration is closed and drained
AllClosedEmpty == \A ch \in 1..nch : closed[ch] /\ queue[ch] = <<>>

\* history kept by the steps that empty a queue or set a closed flag
NoteDrained ==
    everDrained' = (everDrained \/ \A ch \in 1..nch : closed'[ch] /\ queue'[ch] = <<>>)

\* condition_variable::notify_one on consume: wakes one waiting receiver
NotifyOneConsume(ch) ==
    IF consume[ch] = {}
    THEN UNCHANGED <<consume, rpc>>
    ELSE \E w \in consume[ch] :
            /\ consume' = [consume EXCEPT ![ch] = @ \ {w}]
            /\ rpc' = [rpc EXCEPT ![w] = "lock"]

\* condition_variable::notify_one on produce: wakes one waiting sender
NotifyOneProduce(ch) ==
    IF produce[ch] = {}
    THEN UNCHANGED <<produce, spc>>
    ELSE \E w \in produce[ch] :
            /\ produce' = [produce EXCEPT ![ch] = @ \ {w}]
            /\ spc' = [spc EXCEPT ![w] = "lock"]

(***************************************************************************)
(* sender::send                                                            *)
(***************************************************************************)
\* a thread calls send(value); values are numbered in call order
SendCall(s) ==
    /\ spc[s] = "idle"
    /\ s <= conf.senders
    /\ nsends < conf.sends
    /\ \E ch \in 1..nch :
          /\ sch' = [sch EXCEPT ![s] = ch]
          /\ sAfterClose' = [sAfterClose EXCEPT ![s] = closeReturned[ch]]
    /\ nsends' = nsends + 1
    /\ sval' = [sval EXCEPT ![s] = nsends + 1]
    /\ spc' = [spc EXCEPT ![s] = "check"]
    /\ UNCHANGED <<chanVars, recvVars, closeVars, ret, sent, rcvd, closeMark,
                   closeReturned, sWaitOpen, lastDeq, selVars, selHist,
                   selRound, taskVars, asgVars>>

\* if (!this->is_open()) throw std::runtime_error(...)
SendCheck(s) ==
    /\ spc[s] = "check"
    /\ IF ~is_open(sch[s])
       THEN /\ spc' = [spc EXCEPT ![s] = "idle"]
            /\ sval' = [sval EXCEPT ![s] = 0]
            /\ ret' = Returned(SenderId(s), "send", "ChannelClosed")
       ELSE /\ spc' = [spc EXCEPT ![s] = "lock"]
            /\ UNCHANGED <<sval, ret>>
    /\ UNCHANGED <<chanVars, sch, recvVars, closeVars, nsends, histVars, selVars,
                   selHist,
                   selRound, taskVars, asgVars>>

\* std::unique_lock lock(mutex); produce.wait(lock, pred) with the predicate
\* false: wait() releases the mutex and blocks.  The queue and produce are
\* touched only with the mutex held and send() reads nothing else in its
\* critical section, so no other thread can tell these steps apart.
SendWait(s) ==
    /\ spc[s] = "lock"
    /\ mutex[sch[s]] = Free
    /\ ~HasSpace(sch[s])
    /\ produce' = [produce EXCEPT ![sch[s]] = @ \cup {s}]
    /\ spc' = [spc EXCEPT ![s] = "waiting"]
    /\ sWaitOpen' = [sWaitOpen EXCEPT ![s] = is_open(sch[s])]
    /\ UNCHANGED <<nch, conf, capacity, closed, queue, mutex, consume, sch, sval,
                   recvVars, closeVars, ret, nsends, sent, rcvd, closeMark,
                   closeReturned, sAfterClose, lastDeq, selVars, selHist,
                   selRound, taskVars, asgVars>>

\* std::unique_lock lock(mutex); the predicate is true: queue.push(value);
\* consume.notify_one(); and the unlock at scope exit
SendPush(s) ==
    /\ spc[s] = "lock"
    /\ mutex[sch[s]] = Free
    /\ HasSpace(sch[s])
    /\ queue' = [queue EXCEPT ![sch[s]] = Push(@, sval[s])]
    /\ NotifyOneConsume(sch[s])
    /\ spc' = [spc EXCEPT ![s] = "idle"]
    /\ sval' = [sval EXCEPT ![s] = 0]
    /\ ret' = Returned(SenderId(s), "send", "ok")
    /\ sent' = [sent EXCEPT ![sch[s]] = Append(@, sval[s])]
    /\ sWaitOpen' = [sWaitOpen EXCEPT ![s] = FALSE]
    /\ lastDeq' = [lastDeq EXCEPT ![sch[s]].pushed = @ \cup {s}]
    /\ UNCHANGED <<nch, conf, capacity, closed, mutex, produce, sch, rch, rop,
                   closeVars, nsends, rcvd, closeMark, closeReturned, sAfterClose,
                   selVars, selHist,
                   selRound, taskVars, asgVars>>

\* a spurious wakeup of a sender blocked in produce.wait
SendSpurious(s) ==
    /\ spc[s] = "waiting"
    /\ produce' = [produce EXCEPT ![sch[s]] = @ \ {s}]
    /\ spc' = [spc EXCEPT ![s] = "lock"]
    /\ UNCHANGED <<nch, conf, capacity, closed, queue, mutex, consume, sch, sval,
                   recvVars, closeVars, ret, nsends, histVars, selVars, selHist,
                   selRound, taskVars, asgVars>>

send(s) == SendCheck(s) \/ SendWait(s) \/ SendPush(s)

(***************************************************************************)
(* receiver::receive, try_receive, operator>> and the iterator             *)
(***************************************************************************)
RecvOps == {"receive", "try_receive", "shift", "iterate"}

BlockingOps_All == RecvOps

\* the calls that wait on consume: all but try_receive
BlockingOps == {"receive", "shift", "iterate"}

\* a thread calls receive(), try_receive(), operator>> or begin()
RecvCall(r) ==
    /\ rpc[r] = "idle"
    /\ r <= conf.receivers
    /\ \E ch \in 1..nch : rch' = [rch EXCEPT ![r] = ch]
    /\ \E o \in RecvOps : rop' = [rop EXCEPT ![r] = o]
    /\ rpc' = [rpc EXCEPT ![r] = "lock"]
    /\ UNCHANGED <<chanVars, sendVars, closeVars, ret, nsends, histVars,
                   selVars, selHist,
                   selRound, taskVars, asgVars>>

\* front(), pop(), produce.notify_one() of receive, try_receive and operator>>
Dequeue(ch) ==
    /\ queue' = [queue EXCEPT ![ch] = Pop(@)]
    /\ NotifyOneProduce(ch)
    /\ rcvd' = [rcvd EXCEPT ![ch] = Append(@, Front(queue[ch]))]
    /\ lastDeq' = [lastDeq EXCEPT ![ch] =
                      [full |-> Len(queue[ch]) = capacity[ch], blocked |-> produce[ch],
                       sentAt |-> Len(sent[ch]), pushed |-> {}]]

\* std::unique_lock lock(mutex); consume.wait(lock, pred): the predicate is
\* evaluated with the mutex held and is false
RecvPred(r) ==
    /\ rpc[r] = "lock"
    /\ rop[r] \in BlockingOps
    /\ mutex[rch[r]] = Free
    /\ ~CanReceive(rch[r])
    /\ mutex' = [mutex EXCEPT ![rch[r]] = ReceiverId(r)]
    /\ rpc' = [rpc EXCEPT ![r] = "block"]
    /\ UNCHANGED <<nch, conf, capacity, closed, queue, produce, consume, sendVars,
                   rch, rop, closeVars, ret, nsends, histVars, selVars, selHist,
                   selRound, taskVars, asgVars>>

\* the predicate was false: wait() releases the mutex and blocks
RecvWait(r) ==
    /\ rpc[r] = "block"
    /\ mutex' = [mutex EXCEPT ![rch[r]] = Free]
    /\ consume' = [consume EXCEPT ![rch[r]] = @ \cup {r}]
    /\ rpc' = [rpc EXCEPT ![r] = "waiting"]
    /\ UNCHANGED <<nch, conf, capacity, closed, queue, produce, sendVars, rch, rop,
                   closeVars, ret, nsends, histVars, selVars, selHist,
                   selRound, taskVars, asgVars>>

\* the mutex is taken and (but for try_receive, which does not wait) the
\* predicate is true: an empty queue gives the empty result, otherwise the
\* front is dequeued; the mutex is released at scope exit.  From the
\* evaluation of the predicate on, only the queue and produce are touched,
\* both with the mutex held.
RecvBody(r) ==
    /\ rpc[r] = "lock"
    /\ mutex[rch[r]] = Free
    /\ rop[r] \in BlockingOps => CanReceive(rch[r])
    /\ IF queue[rch[r]] = <<>>
       THEN /\ ret' = Returned(ReceiverId(r), rop[r], None)
            /\ rpc' = [rpc EXCEPT ![r] = "idle"]
            /\ rop' = [rop EXCEPT ![r] = "none"]
            /\ UNCHANGED <<queue, produce, spc, rcvd, lastDeq>>
       ELSE /\ ret' = Returned(ReceiverId(r), rop[r], Some(Front(queue[rch[r]])))
            /\ Dequeue(rch[r])
            \* iterator::operator!= and operator++: the loop goes on, with
            \* another receive(), while the last one gave a value
            /\ rpc' = [rpc EXCEPT ![r] = IF rop[r] = "iterate" THEN "lock" ELSE "idle"]
            /\ rop' = [rop EXCEPT ![r] = IF @ = "iterate" THEN @ ELSE "none"]
    /\ UNCHANGED <<nch, conf, capacity, closed, mutex, consume, sch, sval, rch,
                   closeVars, nsends, sent, closeMark, closeReturned,
                   sAfterClose, sWaitOpen, selVars, lateRound, yieldedAfter,
                   selRound, taskVars, asgVars>>
    /\ NoteDrained

\* a spurious wakeup of a receiver blocked in consume.wait
RecvSpurious(r) ==
    /\ rpc[r] = "waiting"
    /\ consume' = [consume EXCEPT ![rch[r]] = @ \ {r}]
    /\ rpc' = [rpc EXCEPT ![r] = "lock"]
    /\ UNCHANGED <<nch, conf, capacity, closed, queue, mutex, produce, sendVars,
                   rch, rop, closeVars, ret, nsends, histVars, selVars, selHist,
                   selRound, taskVars, asgVars>>

receive(r) == RecvPred(r) \/ RecvWait(r) \/ RecvBody(r)

(***************************************************************************)
(* basic_chan::close                                                       *)
(***************************************************************************)
StoredFlag_Toggles(was) == ~was

\* the value that close() stores in closed, whatever the flag was
StoredFlag(was) == TRUE

CloseCall(c) ==
    /\ cpc[c] = "idle"
    /\ c <= conf.closers
    /\ \E ch \in 1..nch : cch' = [cch EXCEPT ![c] = ch]
    /\ cpc' = [cpc EXCEPT ![c] = "store"]
    /\ UNCHANGED <<chanVars, sendVars, recvVars, ret, nsends, histVars, selVars,
                   selHist,
                   selRound, taskVars, asgVars>>

\* e->closed.store(true): the mutex is not taken
CloseStore(c) ==
    /\ cpc[c] = "store"
    /\ closed' = [closed EXCEPT ![cch[c]] = StoredFlag(@)]
    /\ closeMark' = [closeMark EXCEPT ![cch[c]] =
                        IF closed[cch[c]] THEN @ ELSE Len(sent[cch[c]])]
    /\ cpc' = [cpc EXCEPT ![c] = "notify"]
    /\ UNCHANGED <<nch, conf, capacity, queue, mutex, produce, consume, sendVars,
                   recvVars, cch, ret, nsends, sent, rcvd, closeReturned,
                   sAfterClose, sWaitOpen, lastDeq, selVars, lateRound, yieldedAfter,
                   selRound, taskVars, asgVars>>
    /\ NoteDrained

\* e->consume.notify_all(): every receiver blocked in wait() is woken;
\* produce is not notified
CloseNotify(c) ==
    /\ cpc[c] = "notify"
    /\ consume' = [consume EXCEPT ![cch[c]] = {}]
    /\ rpc' = [r \in Receivers |-> IF r \in consume[cch[c]] THEN "lock" ELSE rpc[r]]
    /\ cpc' = [cpc EXCEPT ![c] = "idle"]
    /\ closeReturned' = [closeReturned EXCEPT ![cch[c]] = TRUE]
    /\ UNCHANGED <<nch, conf, capacity, closed, queue, mutex, produce, sendVars,
                   rch, rop, cch, ret, nsends, sent, rcvd, closeMark,
                   sAfterClose, sWaitOpen, lastDeq, selVars, selHist,
                   selRound, taskVars, asgVars>>

close(c) == CloseStore(c) \/ CloseNotify(c)

(***************************************************************************)
(* The channel on its own: one channel of capacity 0..MaxCap or unbounded, *)
(* used by sender, receiver and closer threads.                            *)
(***************************************************************************)
Capacities == (0..MaxCap) \cup {SizeMax}

InitThreads ==
    /\ closed = [ch \in Chans |-> FALSE]
    /\ queue = [ch \in Chans |-> <<>>]
    /\ mutex = [ch \in Chans |-> Free]
    /\ produce = [ch \in Chans |-> {}]
    /\ consume = [ch \in Chans |-> {}]
    /\ spc = [s \in Senders |-> "idle"]
    /\ sch = [s \in Senders |-> 1]
    /\ sval = [s \in Senders |-> 0]
    /\ rpc = [r \in Receivers |-> "idle"]
    /\ rch = [r \in Receivers |-> 1]
    /\ rop = [r \in Receivers |-> "none"]
    /\ cpc = [c \in Closers |-> "idle"]
    /\ cch = [c \in Closers |-> 1]
    /\ ret = Returned(<<>>, "none", None)
    /\ nsends = 0
    /\ sent = [ch \in Chans |-> <<>>]
    /\ rcvd = [ch \in Chans |-> <<>>]
    /\ closeMark = [ch \in Chans |-> 0]
    /\ closeReturned = [ch \in Chans |-> FALSE]
    /\ sAfterClose = [s \in Senders |-> FALSE]
    /\ sWaitOpen = [s \in Senders |-> FALSE]
    /\ lastDeq = [ch \in Chans |->
                    [full |-> FALSE, blocked |-> {}, sentAt |-> 0, pushed |-> {}]]
    /\ everDrained = FALSE
    /\ lateRound = FALSE
    /\ yieldedAfter = FALSE
    /\ tried = [ch \in Chans |-> FALSE]
    /\ roundDeq = {}

\* no timer() or ticker() was called
InitNoTask ==
    /\ tpc = "off"
    /\ tkind = "none"
    /\ tAfterClose = FALSE

\* no handle is being assigned: every handle holds the one core
InitNoAssign ==
    /\ e = [h \in Handles |-> 1]
    /\ shared_ptr_mutex = [c \in Cores |-> Free]
    /\ apc = [a \in Assigners |-> <<"off", "none">>]
    /\ lhs = [a \in Assigners |-> 1]
    /\ rhs = [a \in Assigners |-> 1]
    /\ lock_lhs = [a \in Assigners |-> 0]
    /\ lock_rhs = [a \in Assigners |-> 0]

InitNoSelect ==
    /\ selpc = "off"
    /\ nullable = FALSE
    /\ stage = [ch \in Chans |-> None]
    /\ is_closed = [ch \in Chans |-> FALSE]
    /\ opened = 0
    /\ idx = 1
    /\ not_visited = 0
    /\ visited = [ch \in Chans |-> FALSE]
    /\ received = FALSE

Threads(s, r, c, n) == [senders |-> s, receivers |-> r, closers |-> c, sends |-> n]

\* The thread populations explored: many senders against one receiver on a
\* channel nobody closes; senders, a receiver and a closer; one sender,
\* several receivers and a closer.
Configurations ==
    {Threads(NSenders, 1, 0, MaxSends),
     Threads(NSenders - 1, 1, NClosers, MaxSends - 1),
     Threads(1, NReceivers, NClosers, MaxSends - 1)}

Init ==
    /\ nch = 1
    /\ conf \in Configurations
    /\ capacity \in [Chans -> Capacities]
    /\ \A ch \in Chans : ch > nch => capacity[ch] = SizeMax
    /\ InitThreads
    /\ InitNoSelect
    /\ InitNoTask
    /\ InitNoAssign

Next ==
    \/ \E s \in Senders : SendCall(s) \/ send(s) \/ SendSpurious(s)
    \/ \E r \in Receivers : RecvCall(r) \/ receive(r) \/ RecvSpurious(r)
    \/ \E c \in Closers : CloseCall(c) \/ close(c)

Spec == Init /\ [][Next]_vars

(***************************************************************************)
(* Progress.  A thread inside a call keeps running: each step of a call    *)
(* in progress is eventually taken if it stays possible, and a thread that *)
(* needs the mutex gets it if the mutex is free again and again.  Nothing  *)
(* obliges a thread to make a new call, and nothing obliges a spurious     *)
(* wakeup to happen.  The liveness claims are explored on one bounded      *)
(* channel of capacity 1: with senders, a receiver and a closer, and with  *)
(* more senders and a receiver on a channel nobody closes.                 *)
(***************************************************************************)
InitFair ==
    /\ nch = 1
    /\ conf = Threads(NSenders - 1, 1, NClosers, MaxSends - 1)
    /\ capacity = [ch \in Chans |-> IF ch <= nch THEN 1 ELSE SizeMax]
    /\ InitThreads
    /\ InitNoSelect
    /\ InitNoTask
    /\ InitNoAssign

InitOpen ==
    /\ nch = 1
    /\ conf = Threads(NSenders, 1, 0, MaxSends)
    /\ capacity = [ch \in Chans |-> IF ch <= nch THEN 1 ELSE SizeMax]
    /\ InitThreads
    /\ InitNoSelect
    /\ InitNoTask
    /\ InitNoAssign

NextOpen ==
    \/ \E s \in Senders : SendCall(s) \/ send(s) \/ SendSpurious(s)
    \/ \E r \in Receivers : RecvCall(r) \/ receive(r) \/ RecvSpurious(r)

Fairness ==
    /\ \A s \in Senders : SF_vars(send(s))
    /\ \A r \in Receivers : SF_vars(receive(r))
    /\ \A c \in Closers : WF_vars(close(c))

FairSpec == InitFair /\ [][Next]_vars /\ Fairness

\* On the channel nobody closes less is assumed: of the senders inside a
\* call one keeps running, and so of the receivers (which the fairness of
\* every single thread implies).
FairOpenSpec ==
    /\ InitOpen
    /\ [][NextOpen]_vars
    /\ SF_vars(\E s \in Senders : send(s))
    /\ SF_vars(\E r \in Receivers : receive(r))

(***************************************************************************)
(* select: the iterator that a range-based for loop runs over a select,    *)
(*     for (auto t : select(...)) body                                     *)
(* that is  it = begin(); while (it != end()) { t = *it; body; ++it; }     *)
(***************************************************************************)
Again_IgnoresReceived(rec, op, nv) == op > 0 /\ (~nullable \/ nv # 0)

\* the condition of the outer do-while loop of operator++
Again(rec, op, nv) == ~rec /\ op > 0 /\ (~nullable \/ nv # 0)

\* iterator::operator!=
NotEnd(op) == op > 0

\* where the thread goes after one pass of the loop body of operator++: back
\* into the loop, or out of operator++ and through operator!= to the loop
\* body of the caller, or out of the caller's loop
AfterProbe(rec, op, nv) ==
    IF Again(rec, op, nv) THEN "pick" ELSE IF NotEnd(op) THEN "yield" ELSE "end"

\* the else branch of the lambda of operator++: only a select that is not
\* nullable looks at is_open() after an empty probe
ChecksOpen_EvenIfNullable == TRUE

ChecksOpen == ~nullable

Dist_FirstOnly == {1}

\* std::uniform_int_distribution dist(0, sizeof...(Us) - 1): the indices that
\* dist(rd) can give (the channels are numbered from 1 here)
Dist == 1..nch

\* begin(): the iterator is constructed with every channel open, and its
\* constructor calls operator++, which clears the stage and the visited marks
SelBegin ==
    /\ selpc = "begin"
    /\ is_closed' = [ch \in Chans |-> FALSE]
    /\ opened' = nch
    /\ stage' = [ch \in Chans |-> None]
    /\ not_visited' = nch
    /\ visited' = [ch \in Chans |-> FALSE]
    /\ selpc' = "pick"
    /\ lateRound' = everDrained
    /\ tried' = [ch \in Chans |-> FALSE]
    /\ roundDeq' = {}
    /\ UNCHANGED <<chanVars, sendVars, recvVars, closeVars, ret, nsends, histVars,
                   nullable, idx, received, everDrained, yieldedAfter,
                   taskVars, asgVars>>

\* do { idx = dist(rd); } while (is_closed[idx]);
SelPick ==
    /\ selpc = "pick"
    /\ \E i \in Dist :
          /\ idx' = i
          /\ selpc' = IF is_closed[i] THEN "pick" ELSE "try"
    /\ UNCHANGED <<chanVars, sendVars, recvVars, closeVars, ret, nsends, histVars,
                   nullable, stage, is_closed, opened, not_visited, visited,
                   received, selHist, selRound,
                   taskVars, asgVars>>

\* stg = receiver.try_receive(); received = bool(stg); and, when nothing was
\* received by a nullable select, the visited mark of the channel
SelTry ==
    /\ selpc = "try"
    /\ mutex[idx] = Free
    /\ IF queue[idx] = <<>>
       THEN /\ stage' = [stage EXCEPT ![idx] = None]
            /\ received' = FALSE
            /\ visited' = [visited EXCEPT ![idx] = @ \/ nullable]
            /\ not_visited' = IF nullable /\ ~visited[idx]
                              THEN not_visited - 1 ELSE not_visited
            /\ selpc' = IF ChecksOpen
                        THEN "is_open"
                        ELSE AfterProbe(FALSE, opened, not_visited')
            /\ tried' = [tried EXCEPT ![idx] = TRUE]
            /\ UNCHANGED <<queue, produce, spc, rcvd, lastDeq, roundDeq>>
       ELSE /\ stage' = [stage EXCEPT ![idx] = Some(Front(queue[idx]))]
            /\ received' = TRUE
            /\ roundDeq' = roundDeq \cup {<<idx, Front(queue[idx])>>}
            /\ UNCHANGED tried
            /\ Dequeue(idx)
            /\ selpc' = AfterProbe(TRUE, opened, not_visited)
            /\ UNCHANGED <<visited, not_visited>>
    /\ UNCHANGED <<nch, conf, capacity, closed, mutex, consume, sch, sval,
                   recvVars, closeVars, ret, nsends, sent, closeMark,
                   closeReturned, sAfterClose, sWaitOpen, nullable, is_closed,
                   opened, idx, lateRound, yieldedAfter,
                   taskVars, asgVars>>
    /\ NoteDrained

\* else if (!receiver.is_open()) { is_closed[idx] = true; --opened; }
SelIsOpen ==
    /\ selpc = "is_open"
    /\ IF ~is_open(idx)
       THEN /\ is_closed' = [is_closed EXCEPT ![idx] = TRUE]
            /\ opened' = opened - 1
       ELSE UNCHANGED <<is_closed, opened>>
    /\ selpc' = AfterProbe(received, opened', not_visited)
    /\ UNCHANGED <<chanVars, sendVars, recvVars, closeVars, ret, nsends, histVars,
                   nullable, stage, idx, not_visited, visited, received, selHist,
                   selRound,
                   taskVars, asgVars>>

\* operator* hands the stage to the body of the caller's loop; then
\* operator++ clears the stage and the visited marks
SelYield ==
    /\ selpc = "yield"
    /\ yieldedAfter' = (yieldedAfter \/ lateRound)
    /\ lateRound' = everDrained
    /\ tried' = [ch \in Chans |-> FALSE]
    /\ roundDeq' = {}
    /\ stage' = [ch \in Chans |-> None]
    /\ not_visited' = nch
    /\ visited' = [ch \in Chans |-> FALSE]
    /\ selpc' = "pick"
    /\ UNCHANGED <<chanVars, sendVars, recvVars, closeVars, ret, nsends, histVars,
                   nullable, is_closed, opened, idx, received, everDrained,
                   taskVars, asgVars>>

select ==  SelBegin \/ SelPick \/ SelTry \/ SelIsOpen \/ SelYield

(***************************************************************************)
(* A select over NChans channels of capacity 1, nullable or not, while a   *)
(* sender thread and a closer thread use the channels.                     *)
(***************************************************************************)
InitSelect ==
    /\ nch = NChans
    /\ conf = Threads(1, 0, NClosers, MaxSends - 2)
    /\ capacity = [ch \in Chans |-> 1]
    /\ InitThreads
    /\ InitNoTask
    /\ InitNoAssign
    /\ selpc = "begin"
    /\ nullable \in BOOLEAN
    /\ stage = [ch \in Chans |-> None]
    /\ is_closed = [ch \in Chans |-> FALSE]
    /\ opened = 0
    /\ idx = 1
    /\ not_visited = 0
    /\ visited = [ch \in Chans |-> FALSE]
    /\ received = FALSE

NextSelect ==
    \/ select
    \/ \E s \in Senders : SendCall(s) \/ send(s) \/ SendSpurious(s)
    \/ \E c \in Closers : CloseCall(c) \/ close(c)

SelectSpec == InitSelect /\ [][NextSelect]_vars

\* The thread of the select keeps running, and its random index is each of the
\* indices it can still draw again and again.
FairSelect ==
    /\ WF_vars(select)
    /\ \A i \in Chans : SF_vars(SelPick /\ idx' = i /\ ~is_closed[i])

FairSelectSpec == InitSelect /\ [][NextSelect]_vars /\ FairSelect

(***************************************************************************)
(* A select over NChans channels of capacity 1 that nobody closes, while a *)
(* sender thread sends to them.                                            *)
(***************************************************************************)
InitOpenSelect ==
    /\ nch = NChans
    /\ conf = Threads(1, 0, 0, MaxSends - 1)
    /\ capacity = [ch \in Chans |-> 1]
    /\ InitThreads
    /\ InitNoTask
    /\ InitNoAssign
    /\ selpc = "begin"
    /\ nullable \in BOOLEAN
    /\ stage = [ch \in Chans |-> None]
    /\ is_closed = [ch \in Chans |-> FALSE]
    /\ opened = 0
    /\ idx = 1
    /\ not_visited = 0
    /\ visited = [ch \in Chans |-> FALSE]
    /\ received = FALSE

NextOpenSelect ==
    \/ select
    \/ \E s \in Senders : SendCall(s) \/ send(s) \/ SendSpurious(s)

\* The thread of the select keeps running and its random index is each of
\* the indices again and again; the sender keeps running too.
FairOpenSelectSpec ==
    /\ InitOpenSelect
    /\ [][NextOpenSelect]_vars
    /\ WF_vars(select)
    /\ \A i \in Chans : SF_vars(SelPick /\ idx' = i)
    /\ \A s \in Senders : SF_vars(send(s))

(***************************************************************************)
(* timer and ticker: a detached thread that owns a copy of the handle of   *)
(* an unbounded channel (channel 1), whose receiver side the caller gets.  *)
(*   timer:   sleep_for(period); channel.send(now()); channel.close();     *)
(*   ticker:  while (true) { sleep_for(interval);                          *)
(*                try { channel.send(now()); } catch (...) { break; } }    *)
(***************************************************************************)
TaskKinds == {"timer", "ticker"}

Catches_Nothing(kind) == FALSE

\* the try block around send(): only the loop of ticker has one
Catches(kind) == kind = "ticker"

\* sleep_for returns and the thread calls send(now()); the time points are
\* numbered in call order
TaskSleep ==
    /\ tpc = "sleep"
    /\ nsends < conf.sends \/ closed[1]
    /\ nsends' = nsends + 1
    /\ tAfterClose' = closed[1]
    /\ tpc' = "check"
    /\ UNCHANGED <<chanVars, sendVars, recvVars, closeVars, ret, histVars, selVars,
                   selHist, selRound, tkind, asgVars>>

\* send: if (!this->is_open()) throw std::runtime_error(...).  The exception
\* leaves the loop of ticker through its catch; in the thread of timer
\* nothing catches it, and an exception that leaves the function of a
\* std::thread calls std::terminate.
TaskCheck ==
    /\ tpc = "check"
    /\ tpc' = IF is_open(1) THEN "lock"
              ELSE IF Catches(tkind) THEN "done" ELSE "terminated"
    /\ UNCHANGED <<chanVars, sendVars, recvVars, closeVars, ret, nsends, histVars,
                   selVars, selHist, selRound, tkind, tAfterClose, asgVars>>

\* send: lock, the predicate of produce.wait (true: the channel is
\* unbounded), queue.push, consume.notify_one, unlock; then close() in timer
\* and the next turn of the loop in ticker
TaskPush ==
    /\ tpc = "lock"
    /\ mutex[1] = Free
    /\ HasSpace(1)
    /\ queue' = [queue EXCEPT ![1] = Push(@, nsends)]
    /\ NotifyOneConsume(1)
    /\ sent' = [sent EXCEPT ![1] = Append(@, nsends)]
    /\ tpc' = IF tkind = "timer" THEN "store" ELSE "sleep"
    /\ UNCHANGED <<nch, conf, capacity, closed, mutex, produce, sendVars, rch, rop,
                   closeVars, ret, nsends, rcvd, closeMark, closeReturned,
                   sAfterClose, sWaitOpen, lastDeq, selVars, selHist, selRound,
                   tkind, tAfterClose, asgVars>>

\* timer: channel.close(), e->closed.store(true)
TaskCloseStore ==
    /\ tpc = "store"
    /\ closed' = [closed EXCEPT ![1] = StoredFlag(@)]
    /\ closeMark' = [closeMark EXCEPT ![1] = IF closed[1] THEN @ ELSE Len(sent[1])]
    /\ tpc' = "notify"
    /\ UNCHANGED <<nch, conf, capacity, queue, mutex, produce, consume, sendVars,
                   recvVars, closeVars, ret, nsends, sent, rcvd, closeReturned,
                   sAfterClose, sWaitOpen, lastDeq, selVars, lateRound, yieldedAfter,
                   selRound, tkind, tAfterClose, asgVars>>
    /\ NoteDrained

\* timer: channel.close(), e->consume.notify_all(); the thread ends
TaskCloseNotify ==
    /\ tpc = "notify"
    /\ consume' = [consume EXCEPT ![1] = {}]
    /\ rpc' = [r \in Receivers |-> IF r \in consume[1] THEN "lock" ELSE rpc[r]]
    /\ closeReturned' = [closeReturned EXCEPT ![1] = TRUE]
    /\ tpc' = "done"
    /\ UNCHANGED <<nch, conf, capacity, closed, queue, mutex, produce, sendVars,
                   rch, rop, closeVars, ret, nsends, sent, rcvd, closeMark,
                   sAfterClose, sWaitOpen, lastDeq, selVars, selHist, selRound,
                   tkind, tAfterClose, asgVars>>

task == TaskSleep \/ TaskCheck \/ TaskPush \/ TaskCloseStore \/ TaskCloseNotify

\* timer(d) or ticker(i) was called: the channel is constructed unbounded and
\* the thread started; the caller uses the receiver it got from one or two
\* threads, and closes it or not.
InitTask ==
    /\ nch = 1
    /\ conf \in {Threads(0, NReceivers, 0, MaxSends - 2),
                 Threads(0, 1, NClosers, MaxSends - 2)}
    /\ capacity = [ch \in Chans |-> SizeMax]
    /\ InitThreads
    /\ InitNoSelect
    /\ InitNoAssign
    /\ tkind \in TaskKinds
    /\ tpc = "sleep"
    /\ tAfterClose = FALSE

NextTask ==
    \/ task
    \/ \E r \in Receivers : RecvCall(r) \/ receive(r) \/ RecvSpurious(r)
    \/ \E c \in Closers : CloseCall(c) \/ close(c)

TaskSpec == InitTask /\ [][NextTask]_vars

\* The detached thread keeps running (its sleep ends, and it gets the mutex
\* if the mutex is free again and again), and so do the caller's threads
\* inside their calls.
FairTaskSpec ==
    /\ InitTask
    /\ [][NextTask]_vars
    /\ SF_vars(task)
    /\ \A r \in Receivers : SF_vars(receive(r))
    /\ \A c \in Closers : WF_vars(close(c))

(***************************************************************************)
(* Handles: basic_chan's copy constructor and copy assignment.  A handle   *)
(* holds a shared pointer e to its core; both operations take              *)
(* shared_ptr_mutex of the cores involved.  (Move construction and move    *)
(* assignment take the same locks in the same order.)  Every core is also  *)
(* held by a handle that no thread assigns to, so no core is destroyed.    *)
(*   basic_chan(const basic_chan &c) {                                     *)
(*       lock_guard lock(c.e->shared_ptr_mutex); e = c.e; }                *)
(*   operator=(const basic_chan &c) {                                      *)
(*       lock_guard lock_rhs(c.e->shared_ptr_mutex);                       *)
(*       lock_guard lock_lhs(e->shared_ptr_mutex); e = c.e; }              *)
(***************************************************************************)
AssignerId(a) == <<"assigner", a>>

\* positions of a thread: what it is doing, and for which operand
Idle == <<"idle", "none">>
Assigning == <<"assign", "none">>

\* the operand on the left of a copy construction: a fresh handle
Fresh == 0

\* what locking a std::mutex that the calling thread already owns can do
\* (the behaviour is undefined): block for ever, or throw std::system_error
RelockOutcomes == {"deadlock", "throw"}

\* the order in which operator= constructs its two lock_guards
LockOrder(a) == <<"rhs", "lhs">>

\* the position after the lock_guard of `side` is constructed
AfterLock(a, side) ==
    IF lhs[a] = Fresh THEN Assigning
    ELSE IF side = LockOrder(a)[1] THEN <<"read", LockOrder(a)[2]>> ELSE Assigning

\* a thread calls `l = r` on two handles, or copy-constructs a handle from r
AsgCall(a) ==
    /\ apc[a] = Idle
    /\ \E l \in Handles \cup {Fresh}, r \in Handles :
          /\ lhs' = [lhs EXCEPT ![a] = l]
          /\ rhs' = [rhs EXCEPT ![a] = r]
          /\ apc' = [apc EXCEPT ![a] =
                        <<"read", IF l = Fresh THEN "rhs" ELSE LockOrder(a)[1]>>]
    /\ UNCHANGED <<chanVars, sendVars, recvVars, closeVars, ret, nsends, histVars,
                   selVars, selHist, selRound, taskVars, e, shared_ptr_mutex,
                   lock_lhs, lock_rhs>>

\* c.e->shared_ptr_mutex or e->shared_ptr_mutex: the pointer of the handle
\* is read, before the lock is taken
AsgRead(a) ==
    /\ apc[a] \in {<<"read", "rhs">>, <<"read", "lhs">>}
    /\ IF apc[a][2] = "rhs"
       THEN lock_rhs' = [lock_rhs EXCEPT ![a] = e[rhs[a]]] /\ UNCHANGED lock_lhs
       ELSE lock_lhs' = [lock_lhs EXCEPT ![a] = e[lhs[a]]] /\ UNCHANGED lock_rhs
    /\ apc' = [apc EXCEPT ![a] = <<"lock", apc[a][2]>>]
    /\ UNCHANGED <<chanVars, sendVars, recvVars, closeVars, ret, nsends, histVars,
                   selVars, selHist, selRound, taskVars, e, shared_ptr_mutex,
                   lhs, rhs>>

\* the core a thread is about to lock
Wanted(a) == IF apc[a][2] = "rhs" THEN lock_rhs[a] ELSE lock_lhs[a]

\* std::lock_guard: the mutex is free and the thread takes it
AsgLock(a) ==
    /\ apc[a] \in {<<"lock", "rhs">>, <<"lock", "lhs">>}
    /\ shared_ptr_mutex[Wanted(a)] = Free
    /\ shared_ptr_mutex' = [shared_ptr_mutex EXCEPT ![Wanted(a)] = AssignerId(a)]
    /\ apc' = [apc EXCEPT ![a] = AfterLock(a, apc[a][2])]
    /\ UNCHANGED <<chanVars, sendVars, recvVars, closeVars, ret, nsends, histVars,
                   selVars, selHist, selRound, taskVars, e, lhs, rhs, lock_lhs,
                   lock_rhs>>

\* std::lock_guard on a mutex that the thread itself holds: both handles
\* share the core.  The thread blocks for ever, or lock() throws and the
\* first lock_guard releases the mutex while the exception leaves operator=
AsgRelock(a) ==
    /\ apc[a] \in {<<"lock", "rhs">>, <<"lock", "lhs">>}
    /\ shared_ptr_mutex[Wanted(a)] = AssignerId(a)
    /\ \E outcome \in RelockOutcomes :
          IF outcome = "deadlock"
          THEN /\ apc' = [apc EXCEPT ![a] = <<"deadlocked", apc[a][2]>>]
               /\ UNCHANGED <<shared_ptr_mutex, lhs, rhs, lock_lhs, lock_rhs>>
          ELSE /\ apc' = [apc EXCEPT ![a] = Idle]
               /\ shared_ptr_mutex' = [shared_ptr_mutex EXCEPT ![Wanted(a)] = Free]
               /\ lhs' = [lhs EXCEPT ![a] = 1]
               /\ rhs' = [rhs EXCEPT ![a] = 1]
               /\ lock_lhs' = [lock_lhs EXCEPT ![a] = 0]
               /\ lock_rhs' = [lock_rhs EXCEPT ![a] = 0]
    /\ UNCHANGED <<chanVars, sendVars, recvVars, closeVars, ret, nsends, histVars,
                   selVars, selHist, selRound, taskVars, e>>

\* e = c.e; and the lock_guards release their mutexes at scope exit
AsgAssign(a) ==
    /\ apc[a] = Assigning
    /\ e' = IF lhs[a] = Fresh THEN e ELSE [e EXCEPT ![lhs[a]] = e[rhs[a]]]
    /\ shared_ptr_mutex' = [c \in Cores |->
                              IF shared_ptr_mutex[c] = AssignerId(a)
                              THEN Free ELSE shared_ptr_mutex[c]]
    /\ apc' = [apc EXCEPT ![a] = Idle]
    /\ lhs' = [lhs EXCEPT ![a] = 1]
    /\ rhs' = [rhs EXCEPT ![a] = 1]
    /\ lock_lhs' = [lock_lhs EXCEPT ![a] = 0]
    /\ lock_rhs' = [lock_rhs EXCEPT ![a] = 0]
    /\ UNCHANGED <<chanVars, sendVars, recvVars, closeVars, ret, nsends, histVars,
                   selVars, selHist, selRound, taskVars>>

assign(a) == AsgRead(a) \/ AsgLock(a) \/ AsgRelock(a) \/ AsgAssign(a)

\* NHandles handles over NCores cores, shared in any way, and NAssigners
\* threads that copy and assign them
InitAssign ==
    /\ nch = 1
    /\ conf = Threads(0, 0, 0, 0)
    /\ capacity = [ch \in Chans |-> SizeMax]
    /\ InitThreads
    /\ InitNoSelect
    /\ InitNoTask
    /\ e \in [Handles -> Cores]
    /\ shared_ptr_mutex = [c \in Cores |-> Free]
    /\ apc = [a \in Assigners |-> Idle]
    /\ lhs = [a \in Assigners |-> 1]
    /\ rhs = [a \in Assigners |-> 1]
    /\ lock_lhs = [a \in Assigners |-> 0]
    /\ lock_rhs = [a \in Assigners |-> 0]

NextAssign == \E a \in Assigners : AsgCall(a) \/ assign(a)

\* A thread inside a copy or an assignment keeps running, and gets a mutex
\* that is free again and again.
FairAssignSpec ==
    /\ InitAssign
    /\ [][NextAssign]_vars
    /\ \A a \in Assigners : SF_vars(assign(a))

(***************************************************************************)
(* The claims about one channel.                                           *)
(***************************************************************************)
\* C1: once closed is true no value is ever appended to the queue, also by
\* a send that passed the open check before close() or was waiting for space.
C1_NoEnqueueOnceClosed ==
    [][\A ch \in Chans : closed[ch] => sent'[ch] = sent[ch]]_vars

\* C4: the values dequeued, in dequeue order, followed by the queue contents
\* are the values enqueued, in enqueue order; no value is enqueued twice.
C4_Fifo ==
    \A ch \in Chans :
        /\ rcvd[ch] \o queue[ch] = sent[ch]
        /\ \A i, j \in 1..Len(sent[ch]) : sent[ch][i] = sent[ch][j] => i = j

C4_Witness ==
    /\ conf.receivers >= 2
    /\ Len(rcvd[1]) >= 2
    /\ queue[1] # <<>>
    /\ \E r \in Receivers : rpc[r] = "lock"

\* C5: a receive(), an operator>> or an iteration step gives the empty result
\* only when the channel is closed and its queue is empty at that moment;
\* the values enqueued before close() have then all been dequeued, in order,
\* and the iteration makes no further receive().
C5_EndOnlyWhenClosedAndDrained ==
    [][\A r \in Receivers :
          (/\ rpc[r] = "lock"
           /\ rop[r] \in BlockingOps
           /\ rpc'[r] = "idle"
           /\ ret' = Returned(ReceiverId(r), rop[r], None))
          => (/\ closed[rch[r]]
              /\ queue[rch[r]] = <<>>
              /\ Len(rcvd[rch[r]]) >= closeMark[rch[r]]
              /\ SubSeq(rcvd[rch[r]], 1, closeMark[rch[r]])
                    = SubSeq(sent[rch[r]], 1, closeMark[rch[r]])
              /\ rop'[r] = "none")]_vars

C5_Witness ==
    /\ ret.op = "iterate"
    /\ ret.val = None
    /\ closeMark[1] >= 2
    /\ Len(rcvd[1]) >= 2

\* C6: a send invoked after a close() has returned fails with ChannelClosed
\* and leaves the queue and the closed flag unchanged, whatever the queue
\* length and the capacity: it never blocks and never enqueues.
C6_SendAfterCloseFails ==
    [][\A s \in Senders :
          (spc[s] = "check" /\ sAfterClose[s] /\ spc'[s] # "check")
          => (/\ spc'[s] = "idle"
              /\ ret' = Returned(SenderId(s), "send", "ChannelClosed")
              /\ queue' = queue
              /\ closed' = closed)]_vars

C6_Witness ==
    \E s \in Senders :
        /\ spc[s] = "idle"
        /\ sAfterClose[s]
        /\ ret = Returned(SenderId(s), "send", "ChannelClosed")
        /\ capacity[1] \in 1..MaxCap
        /\ Len(queue[1]) = capacity[1]

\* C7: the queue never holds more than capacity values.
C7_CapacityBound == \A ch \in Chans : Len(queue[ch]) <= capacity[ch]

C7_Witness ==
    /\ capacity[1] \in 1..MaxCap
    /\ Len(queue[1]) = capacity[1]
    /\ produce[1] # {}
    /\ closed[1]
    /\ \E s \in Senders : spc[s] = "lock"

\* C2: once the channel is closed, a receiver that is evaluating its wait
\* condition or waiting in receive() does not stay blocked: it returns.
C2_ClosedWakesReceivers ==
    \A r \in Receivers :
        (closed[rch[r]] /\ rpc[r] \in {"block", "waiting"})
            ~> (rpc[r] \notin {"block", "waiting"})

\* C3: a send that blocked for space on an open full channel returns, failing
\* with ChannelClosed, once the channel is closed, without any dequeue.
C3_ClosedWakesSenders ==
    \A s \in Senders :
        (spc[s] = "waiting" /\ sWaitOpen[s] /\ closed[sch[s]])
            ~> (spc[s] = "idle" /\ ret = Returned(SenderId(s), "send", "ChannelClosed"))

\* the sends completed on ch since its last dequeue
SendsSince(ch) == Len(sent[ch]) - lastDeq[ch].sentAt

BlocksIffFull ==
    \A s \in Senders :
        (spc[s] = "lock" /\ spc'[s] # "lock" /\ is_open(sch[s]))
        => (spc'[s] = "waiting" <=> Len(queue[sch[s]]) = capacity[sch[s]])

\* C8, as stated: on an open channel a sender blocks if and only if the queue
\* holds capacity items, and when several senders are blocked on a full queue
\* and one item is dequeued, the send that completes is one of theirs.
C8_OneOfTheBlockedCompletes ==
    /\ [][BlocksIffFull]_vars
    /\ [](\A ch \in Chans :
            (/\ is_open(ch)
             /\ lastDeq[ch].full
             /\ Cardinality(lastDeq[ch].blocked) >= 2
             /\ SendsSince(ch) >= 1)
            => (SendsSince(ch) = 1 /\ lastDeq[ch].pushed \subseteq lastDeq[ch].blocked))

OneSendPerDequeue ==
    \A ch \in Chans :
        (is_open(ch) /\ lastDeq[ch].full)
        => (/\ SendsSince(ch) <= 1
            /\ Cardinality(lastDeq[ch].pushed) = SendsSince(ch)
            /\ \A s \in lastDeq[ch].blocked \ lastDeq[ch].pushed :
                  spc[s] \in {"waiting", "lock"} /\ sch[s] = ch)

\* C8, amended: on an open channel a sender blocks if and only if the queue
\* holds capacity items; after one dequeue from a full queue with senders
\* blocked, exactly one send completes before any further dequeue (by one of
\* the blocked senders or by a sender that arrived after the dequeue), and
\* every other blocked sender stays in its send until further dequeues.
C8_Backpressure ==
    /\ [][BlocksIffFull]_vars
    /\ []OneSendPerDequeue
    /\ (/\ is_open(1)
        /\ lastDeq[1].full
        /\ lastDeq[1].blocked # {}
        /\ SendsSince(1) = 0)
       ~> (SendsSince(1) = 1 \/ ~lastDeq[1].full \/ ~is_open(1))

C8_Witness ==
    /\ is_open(1)
    /\ lastDeq[1].full
    /\ Cardinality(lastDeq[1].blocked) >= 2
    /\ SendsSince(1) = 1
    /\ lastDeq[1].pushed \subseteq lastDeq[1].blocked
    /\ \E s \in lastDeq[1].blocked : spc[s] = "waiting"

(***************************************************************************)
(* The claims about select.                                                *)
(***************************************************************************)
SelectEnded == selpc = "end"

\* C9: for a select that is not nullable, once every channel is closed and
\* its queue is empty, the iteration eventually ends, and no round that begins
\* after that point yields a tuple to the caller.
C9_SelectEndsWithoutYield ==
    /\ (~nullable /\ AllClosedEmpty) ~> SelectEnded
    /\ [](~nullable /\ everDrained => ~yieldedAfter)

\* C10, as stated: for a nullable select, once every channel is closed and
\* its queue is empty, the iteration ends, and no round that begins after
\* that point yields a tuple to the caller.
C10_NullableSelectEnds ==
    /\ (nullable /\ AllClosedEmpty) ~> SelectEnded
    /\ [](nullable /\ everDrained => ~yieldedAfter)

NeverRetires ==
    nullable /\ selpc # "begin"
        => /\ opened = nch
           /\ \A ch \in Chans : ~is_closed[ch]
           /\ ~SelectEnded

\* C10, amended: a nullable select retires no channel, so its iteration does
\* not end by itself: its count of open channels stays at the number of
\* channels, and once every channel is closed and its queue is empty it goes
\* on yielding a tuple per round to the caller.
C10_NullableSelectGoesOn ==
    /\ []NeverRetires
    /\ (nullable /\ AllClosedEmpty) ~> (yieldedAfter /\ selpc = "pick")

C10_Witness ==
    /\ nullable
    /\ AllClosedEmpty
    /\ yieldedAfter
    /\ selpc = "yield"
    /\ \A ch \in Chans : stage[ch] = None

\* C11: in a select over several channels, nullable or not, in which one
\* channel holds a value and the other channels stay open and empty, that
\* value is eventually dequeued by the select and handed to the caller in the
\* tuple of the round, at the index of its channel.
C11_NoStarvation ==
    \A ch \in Chans : \A v \in 1..MaxSends :
        (/\ queue[ch] # <<>>
         /\ Front(queue[ch]) = v
         /\ \A o \in Chans \ {ch} : queue[o] = <<>> /\ sent[o] = rcvd[o])
        ~> (selpc = "yield" /\ stage[ch] = Some(v) /\ <<ch, v>> \in roundDeq)

C11_Witness ==
    /\ selpc = "yield"
    /\ stage[NChans] = Some(1)
    /\ <<NChans, 1>> \in roundDeq
    /\ \A o \in Chans \ {NChans} : sent[o] = <<>> /\ is_open(o) /\ tried[o]

(***************************************************************************)
(* The claims about timer and ticker.                                      *)
(***************************************************************************)
NoConsumerClose == conf.closers = 0

\* C12: the thread of a timer whose channel the consumer does not close
\* enqueues exactly one time point and then closes the channel, no second
\* value is ever enqueued, the receivers obtain one value in total, and
\* every receive() after that value returns the empty result.
C12_TimerYieldsOneThenEnds ==
    /\ [](tkind = "timer" /\ NoConsumerClose
            => /\ Len(sent[1]) <= 1
               /\ Len(rcvd[1]) <= 1
               /\ (closed[1] => Len(sent[1]) = 1)
               /\ (ret.val # None /\ ret.who # <<>> => ret.val = Some(1)))
    /\ (tkind = "timer" /\ NoConsumerClose)
          ~> (tpc = "done" /\ closed[1] /\ Len(sent[1]) = 1)
    /\ \A r \in Receivers : \A o \in BlockingOps :
          (/\ tkind = "timer" /\ NoConsumerClose
           /\ rcvd[1] # <<>>
           /\ rpc[r] # "idle" /\ rop[r] = o)
          ~> (rpc[r] = "idle" /\ ret = Returned(ReceiverId(r), o, None))

\* C13: when the consumer has closed the channel of a timer or of a ticker
\* before the thread's next send, the failure of that send ends the thread
\* silently: the thread finishes normally, and no exception leaves it.
C13_SendFailureEndsTaskSilently ==
    /\ [](tpc # "terminated")
    /\ (tpc = "check" /\ tAfterClose) ~> (tpc = "done")

SendsAfterClose == Len(sent[1]) - closeMark[1]

\* C14: after the consumer closes the channel of a ticker, at any point of
\* the thread's cycle of sleep and send, the thread eventually leaves its
\* loop; it is never blocked in send, it completes at most one send after
\* the close, and none that began after the close.
C14_TickerStopsAfterClose ==
    /\ (tkind = "ticker" /\ closed[1]) ~> (tpc = "done")
    /\ [](tkind = "ticker"
            => /\ tpc = "lock" => HasSpace(1) /\ ~tAfterClose
               /\ closed[1] => SendsAfterClose <= 1
               /\ tpc = "done" => closed[1]
               /\ tpc # "terminated")

C14_Witness ==
    /\ tkind = "ticker"
    /\ tpc = "done"
    /\ SendsAfterClose = 1
    /\ closeMark[1] >= 1
    /\ rcvd[1] # <<>>

(***************************************************************************)
(* More claims about one channel.                                          *)
(***************************************************************************)
\* C15: try_receive() never waits on a condition; with a queue that is not
\* empty it removes and returns the front element, whether the channel is
\* open or closed; with an empty queue it returns the empty result and
\* leaves the queue and the closed flag unchanged.
C15_TryReceiveNeverWaits ==
    /\ [](\A r \in Receivers :
            rop[r] = "try_receive" => rpc[r] \notin {"block", "waiting"})
    /\ [][\A r \in Receivers :
            (rop[r] = "try_receive" /\ rpc[r] = "lock" /\ rpc'[r] # "lock")
            => /\ rpc'[r] = "idle"
               /\ closed' = closed
               /\ IF queue[rch[r]] # <<>>
                  THEN /\ ret' = Returned(ReceiverId(r), "try_receive",
                                          Some(Head(queue[rch[r]])))
                       /\ queue' = [queue EXCEPT ![rch[r]] = Tail(@)]
                  ELSE /\ ret' = Returned(ReceiverId(r), "try_receive", None)
                       /\ queue' = queue]_vars

C15_Witness ==
    /\ ret.op = "try_receive"
    /\ ret.val = Some(2)
    /\ closed[1]
    /\ closeMark[1] >= 2
    /\ queue[1] # <<>>

\* C16: close() changes only the closed flag, which it sets: it leaves the
\* queue, its order and the capacity unchanged, on a channel that is closed
\* already it changes nothing, and no step of any operation sets closed back
\* from true to false.
C16_CloseSetsOnlyTheFlag ==
    /\ [][\A c \in Closers :
            (cpc[c] \in {"store", "notify"} /\ cpc'[c] # cpc[c])
            => /\ queue' = queue
               /\ capacity' = capacity
               /\ sent' = sent /\ rcvd' = rcvd
               /\ closed' = [closed EXCEPT ![cch[c]] = TRUE]
               /\ closed[cch[c]] => closed' = closed]_vars
    /\ [][\A ch \in Chans : closed[ch] => closed'[ch]]_vars

C16_Witness ==
    /\ \E c \in Closers : cpc[c] = "notify" /\ closeReturned[cch[c]]
    /\ closed[1]
    /\ Len(queue[1]) >= 2
    /\ Len(rcvd[1]) > 0
    /\ Len(sent[1]) = closeMark[1]

(***************************************************************************)
(* More claims about select.                                               *)
(***************************************************************************)
\* C17: a select that is not nullable marks a channel permanently closed
\* only if, at the moment of marking, the channel is closed and its queue is
\* empty: it never retires a channel that still holds an undelivered value.
C17_RetiresOnlyDrainedChannels ==
    [][\A ch \in Chans :
          (~is_closed[ch] /\ is_closed'[ch])
          => (closed[ch] /\ queue[ch] = <<>>)]_vars

\* C18: within one round of the select in which no probe yields a value,
\* each index is probed at most once: try_receive() is not called on a
\* channel that was already found empty in this round.
C18_ProbesEachIndexOnce ==
    [][(selpc = "try" /\ selpc' # "try") => ~tried[idx]]_vars

RoundValues == {ch \in Chans : stage[ch] # None}

\* C20: each round of the select dequeues at most one element over all its
\* channels, and the tuple it yields shows exactly that: a value in exactly
\* one position when the select is not nullable, in at most one position
\* when it is nullable, at the index of the channel it was dequeued from.
C20_OneValuePerRound ==
    /\ Cardinality(roundDeq) <= 1
    /\ selpc = "yield"
         => /\ \A ch \in Chans : \A v \in 1..MaxSends :
                  stage[ch] = Some(v) <=> <<ch, v>> \in roundDeq
            /\ Cardinality(RoundValues) <= 1
            /\ ~nullable => Cardinality(RoundValues) = 1

C20_Witness ==
    /\ selpc = "yield"
    /\ nullable
    /\ roundDeq = {<<NChans, 2>>}
    /\ stage[NChans] = Some(2)
    /\ tried[1]
    /\ queue[1] # <<>>

(***************************************************************************)
(* The claim about handles.                                                *)
(***************************************************************************)
\* C19: copy and assignment of handles always complete: whatever the
\* interleaving of the threads and whatever cores the handles share, no
\* thread stays for ever in an assignment, blocked on shared_ptr_mutex.
C19_AssignmentsComplete ==
    \A a \in Assigners : (apc[a] # Idle) ~> (apc[a] = Idle)

=============================================================================
